---- MODULE Spec2Model ----
(***************************************************************************)
(* GifCompose: a model of src/GifCompose/main.cpp.                         *)
(*                                                                         *)
(* MainAsync is a single coroutine; every statement of it that touches the *)
(* D2D context, a texture, the output file or the encoder is one action,   *)
(* taken in program order under the program counter pc.  A co_await is a   *)
(* suspension point and is recorded in trace, as is every call made on the *)
(* D2D context and on the encoder.                                         *)
(*                                                                         *)
(* Pixels are premultiplied BGRA, 8 bits per channel, as the textures are  *)
(* DXGI_FORMAT_B8G8R8A8_UNORM.  A texture is [w, h, px] with px row-major. *)
(* File names are sequences of character codes, compared as std::wstring   *)
(* compares them.                                                          *)
(***************************************************************************)
EXTENDS Integers, Sequences, FiniteSets, TLC

\* ------------------------------------------------------------------ bounds
\* Most directory entries in the frames directory.
MaxFrames == 2
\* Most directory entries in the backgrounds directory.
MaxBackgrounds == 2
\* How many options (a flag, or a flag and its value) a command line holds.
MaxOptions == 3
\* How many entries a directory read on its own holds.
MaxEntries == 3

\* ------------------------------------------------------- program constants
\* uint32_t frameDelay = 13;
frameDelay == 13
\* UNORM channel maximum of DXGI_FORMAT_B8G8R8A8_UNORM.
ChannelMax == 255
\* Bytes per pixel of DXGI_FORMAT_B8G8R8A8_UNORM.
BytesPerPixel == 4
\* static_cast<uint16_t>: the width of the delay property.
UInt16Modulus == 65536

\* L".png", the only extension LoadBitmapsAsync accepts.
PngExtension == <<46, 112, 110, 103>>
\* "NETSCAPE2.0"
NetscapeText == <<78, 69, 84, 83, 67, 65, 80, 69, 50, 46, 48>>
\* { 3, 1, 0, 0, 0 }
LoopBlock == <<3, 1, 0, 0, 0>>
\* A transparent clear colour.
clearColor_Transparent == <<0, 0, 0, 0>>

\* D2D1_COLOR_F{ 1.0f, 1.0f, 1.0f, 1.0f } as a premultiplied BGRA pixel.
clearColor == <<ChannelMax, ChannelMax, ChannelMax, ChannelMax>>

\* ------------------------------------------------------------ file system
Transparent == <<0, 0, 0, 0>>
OpaqueRed   == <<0, 0, 255, 255>>
OpaqueBlue  == <<255, 0, 0, 255>>
HalfGreen   == <<0, 128, 0, 128>>
FaintGrey   == <<100, 100, 100, 100>>

\* The files a directory may hold, in the order the directory enumerates them
\* (which is not the sorted order).  kind "dir" is a sub-directory; corrupt
\* is a file the decoder rejects.
FilePool ==
  << [name |-> <<98, 46, 112, 110, 103>>,  kind |-> "file", corrupt |-> FALSE,
      image |-> [w |-> 2, h |-> 1, px |-> <<HalfGreen, OpaqueBlue>>]],      \* b.png
     [name |-> <<97, 46, 112, 110, 103>>,  kind |-> "file", corrupt |-> FALSE,
      image |-> [w |-> 2, h |-> 1, px |-> <<OpaqueRed, Transparent>>]],     \* a.png
     [name |-> <<66, 46, 112, 110, 103>>,  kind |-> "file", corrupt |-> FALSE,
      image |-> [w |-> 2, h |-> 1, px |-> <<Transparent, FaintGrey>>]],     \* B.png
     [name |-> <<99, 46, 112, 110, 103>>,  kind |-> "file", corrupt |-> FALSE,
      image |-> [w |-> 1, h |-> 1, px |-> <<OpaqueBlue>>]],                 \* c.png
     [name |-> <<100, 46, 80, 78, 71>>,    kind |-> "file", corrupt |-> FALSE,
      image |-> [w |-> 2, h |-> 1, px |-> <<OpaqueRed, OpaqueRed>>]],       \* d.PNG
     [name |-> <<101, 46, 112, 110, 103>>, kind |-> "file", corrupt |-> TRUE,
      image |-> [w |-> 0, h |-> 0, px |-> <<>>]] >>                         \* e.png

RECURSIVE SelectEntries(_, _)
\* The entries of FilePool whose index is in S, in enumeration order.
SelectEntries(S, k) ==
  IF k > Len(FilePool) THEN <<>>
  ELSE (IF k \in S THEN <<FilePool[k]>> ELSE <<>>) \o SelectEntries(S, k + 1)

\* The values a path argument may denote: nothing, a file, or a directory
\* holding at most n entries.
Paths(n) ==
  { [kind |-> "missing", entries |-> <<>>], [kind |-> "file", entries |-> <<>>] }
  \cup { [kind |-> "dir", entries |-> SelectEntries(S, 1)] :
           S \in { T \in SUBSET (1..Len(FilePool)) : Cardinality(T) <= n } }

\* -------------------------------------------------------- LoadBitmapsAsync
RECURSIVE LexLess(_, _)
\* std::wstring operator<: lexicographic on code units.
LexLess(a, b) ==
  IF b = <<>> THEN FALSE
  ELSE IF a = <<>> THEN TRUE
  ELSE IF Head(a) # Head(b) THEN Head(a) < Head(b)
  ELSE LexLess(Tail(a), Tail(b))

RECURSIVE LastDot(_, _)
\* Index of the last '.' of s at or before k, 0 if there is none.
LastDot(s, k) ==
  IF k = 0 THEN 0 ELSE IF s[k] = 46 THEN k ELSE LastDot(s, k - 1)

\* path.extension(): from the last '.' on; empty when there is no '.' or the
\* only '.' leads the file name.
Extension(s) ==
  LET d == LastDot(s, Len(s))
  IN IF d <= 1 THEN <<>> ELSE SubSeq(s, d, Len(s))

\* The test of the directory loop: a regular file with extension ".png".
Accepted(entry) ==
  /\ entry.kind = "file"
  /\ Extension(entry.name) # <<>>
  /\ Extension(entry.name) = PngExtension

RECURSIVE CollectFiles(_)
\* files.push_back(path.filename()) for each accepted entry, in enumeration
\* order.
CollectFiles(entries) ==
  IF entries = <<>> THEN <<>>
  ELSE (IF Accepted(Head(entries)) THEN <<Head(entries).name>> ELSE <<>>)
       \o CollectFiles(Tail(entries))

RECURSIVE InsertSorted(_, _)
InsertSorted(x, s) ==
  IF s = <<>> THEN <<x>>
  ELSE IF LexLess(x, Head(s)) THEN <<x>> \o s
  ELSE <<Head(s)>> \o InsertSorted(x, Tail(s))

\* The sort left out: the names stay in enumeration order.
SortNames_Unsorted(s) == s

RECURSIVE SortNames(_)
\* std::sort(files.begin(), files.end())
SortNames(s) ==
  IF s = <<>> THEN <<>> ELSE InsertSorted(Head(s), SortNames(Tail(s)))

\* folder.GetFileAsync(filename)
GetFile(entries, filename) ==
  CHOOSE e \in { entries[k] : k \in 1..Len(entries) } : e.name = filename

RECURSIVE DecodeAll(_, _, _)
\* The decode loop: the first file that does not decode fails the load.
DecodeAll(entries, files, bitmaps) ==
  IF files = <<>> THEN [status |-> "ok", bitmaps |-> bitmaps]
  ELSE LET file == GetFile(entries, Head(files))
       IN IF file.corrupt
          THEN [status |-> "DecodeError", bitmaps |-> <<>>]
          ELSE DecodeAll(entries, Tail(files), Append(bitmaps, file.image))

\* LoadBitmapsAsync(d3dDevice, d2dContext, path)
LoadBitmapsAsync(path) ==
  IF path.kind = "missing" THEN [status |-> "InvalidPath", bitmaps |-> <<>>]
  ELSE IF path.kind # "dir" THEN [status |-> "InvalidPath", bitmaps |-> <<>>]
  ELSE CHOOSE bitmaps \in
         { DecodeAll(path.entries, files, <<>>) :
             files \in { SortNames(CollectFiles(path.entries)) } } : TRUE

\* ------------------------------------------------------------------ pixels
\* One channel of premultiplied source-over: s + d * (1 - sa), rounded to
\* the nearest UNORM step and saturated.
BlendChannel(s, d, sa) ==
  LET v == s + ((d * (ChannelMax - sa) + (ChannelMax \div 2)) \div ChannelMax)
  IN IF v > ChannelMax THEN ChannelMax ELSE v

\* D2D1_PRIMITIVE_BLEND_SOURCE_OVER of one pixel over another.
SourceOver(src, dst) ==
  [c \in 1..BytesPerPixel |-> BlendChannel(src[c], dst[c], src[BytesPerPixel])]

\* d2dContext->DrawBitmap(bitmap) with every default: the bitmap is placed
\* unscaled at the origin of the target and blended source-over.
DrawBitmap(target, bitmap) ==
  [target EXCEPT !.px =
     [k \in 1..(target.w * target.h) |->
        LET x == (k - 1) % target.w
            y == (k - 1) \div target.w
        IN IF x < bitmap.w /\ y < bitmap.h
           THEN SourceOver(bitmap.px[y * bitmap.w + x + 1], target.px[k])
           ELSE target.px[k]]]

\* d2dContext->Clear(&clearColor)
Clear(target, color) ==
  [target EXCEPT !.px = [k \in 1..(target.w * target.h) |-> color]]

\* d3dDevice->CreateTexture2D(&desc, nullptr, ...): no initial data, so every
\* pixel holds whatever the allocation held.
CreateTexture2D(width, height, fill) ==
  [w |-> width, h |-> height, px |-> [k \in 1..(width * height) |-> fill]]

\* util::CopyBytesFromTexture: the pixels of the texture as BGRA bytes.
CopyBytesFromTexture(texture) ==
  [k \in 1..(BytesPerPixel * texture.w * texture.h) |->
     texture.px[((k - 1) \div BytesPerPixel) + 1][((k - 1) % BytesPerPixel) + 1]]

\* static_cast<uint16_t>(x)
CastUInt16(x) == x % UInt16Modulus

\* What an uninitialised texture may hold.
Garbage == { Transparent, <<200, 9, 7, 3>> }

NoTexture == [w |-> 0, h |-> 0, px |-> <<>>]
\* An encoder: its container properties, the frames it has closed, and the
\* properties and pixel data of the frame it is on.
NoEncoder == [created |-> FALSE, container |-> <<>>, committed |-> <<>>,
              props |-> <<>>, pixels |-> <<>>, flushed |-> FALSE]

\* ------------------------------------------------------------------- state
VARIABLES
  pc,                        \* the statement MainAsync / wmain executes next
  args,                      \* the command line wmain was started with
  run,                       \* 1 in the first run of the program, 2 in a second
  first,                     \* what the first run left behind
  useDebugLayer, framesPath, backgroundPath, outputPath,   \* the arguments
  debugLevel,                \* D2D1_DEBUG_LEVEL handed to the factory
  frames, frameSize, backgrounds,
  outputFile,                \* TRUE once the output file has been created
  stream,                    \* TRUE once the output file has been opened
  renderTargetTexture, backgroundTemplateTexture, stagingTexture,
  target,                    \* the bitmap the D2D context draws into
  drawOpen,                  \* between BeginDraw and EndDraw
  b,                         \* position of the background loop
  i,                         \* the index of the encode loop
  bytes,                     \* the bytes read back for the current frame
  encoder,
  trace,                     \* every call made so far, in order
  error,                     \* the exception that ended MainAsync, if any
  exitCode                   \* what wmain returned ("fatal": it never returned)

inputs  == <<args, run, first, useDebugLayer, framesPath, backgroundPath,
             outputPath>>
loaded  == <<frames, frameSize, backgrounds>>
gpu     == <<renderTargetTexture, backgroundTemplateTexture, stagingTexture,
             target, drawOpen>>
output  == <<outputFile, stream, encoder, bytes>>
vars    == <<pc, inputs, debugLevel, loaded, gpu, output, b, i, trace, error,
             exitCode>>

\* One call, as trace keeps it.  arg is the frame index it belongs to (the
\* background index for DrawBackground), -1 outside the loops; ok is FALSE
\* when the call threw.
Call(op, arg, ok) == [op |-> op, arg |-> arg, ok |-> ok]
\* The call of this step: it threw exactly when the step leaves MainAsync.
Log(op, arg) == trace' = Append(trace, Call(op, arg, pc' # "Aborted"))

\* A thrown exception leaves MainAsync at once.
Throw(kind) == pc' = "Aborted" /\ error' = kind

\* One word of the command line: its text, and what it denotes when it is
\* used as a directory to read and as a file to create.
Word(text, path, out) == [text |-> text, path |-> path, out |-> out]

\* A word that is a flag; as a path it names nothing.
Flag(text) == Word(text, [kind |-> "missing", entries |-> <<>>], "valid")

\* Nothing is left behind before a run has ended.
NoRun == [useDebugLayer |-> FALSE, trace |-> <<>>, encoder |-> NoEncoder,
          error |-> "none", exitCode |-> "running"]

\* The command line that makes ParseOptions give these options.
CommandLine(debug, framesDir, backgroundDir, out) ==
  << Flag("-f"), Word("frames", framesDir, "invalid"),
     Flag("-b"), Word("backgrounds", backgroundDir, "invalid"),
     Flag("-o"), Word("output", [kind |-> "missing", entries |-> <<>>], out) >>
  \o (IF debug THEN << Flag("-dxDebug") >> ELSE <<>>)

\* MainAsync is entered with valid options (line 208).
Init ==
  /\ pc = "InitD3D"
  /\ useDebugLayer \in BOOLEAN
  /\ framesPath \in Paths(MaxFrames)
  /\ backgroundPath \in Paths(MaxBackgrounds)
  /\ outputPath \in {"valid", "invalid"}
  /\ args = CommandLine(useDebugLayer, framesPath, backgroundPath, outputPath)
  /\ run = 1
  /\ first = NoRun
  /\ debugLevel = "unset"
  /\ frames = <<>> /\ backgrounds = <<>>
  /\ frameSize = [width |-> 0, height |-> 0]
  /\ outputFile = FALSE /\ stream = FALSE
  /\ renderTargetTexture = NoTexture
  /\ backgroundTemplateTexture = NoTexture
  /\ stagingTexture = NoTexture
  /\ target = "none"
  /\ drawOpen = FALSE
  /\ b = 0 /\ i = 0
  /\ bytes = <<>>
  /\ encoder = NoEncoder
  /\ trace = <<>>
  /\ error = "none"
  /\ exitCode = "running"

\* ---------------------------------------------------------------- MainAsync
\* Lines 48-56: util::CreateD3DDevice and the immediate context.
InitD3D ==
  /\ pc = "InitD3D"
  /\ \E ok \in BOOLEAN :
       IF ok THEN pc' = "InitD2D" /\ error' = error ELSE Throw("DeviceError")
  /\ Log("CreateD3DDevice", -1)
  /\ UNCHANGED <<inputs, debugLevel, loaded, gpu, output, b, i, exitCode>>

\* Lines 58-67: the D2D factory, device and device context.
InitD2D ==
  /\ pc = "InitD2D"
  /\ debugLevel' = IF useDebugLayer THEN "INFORMATION" ELSE "NONE"
  /\ \E ok \in BOOLEAN :
       IF ok THEN pc' = "LoadFrames" /\ error' = error ELSE Throw("DeviceError")
  /\ Log("CreateDeviceContext", -1)
  /\ UNCHANGED <<inputs, loaded, gpu, output, b, i, exitCode>>

\* Line 70: co_await LoadBitmapsAsync(..., framesPath)
LoadFrames ==
  /\ pc = "LoadFrames"
  /\ \E r \in { LoadBitmapsAsync(framesPath) } :
        IF r.status = "ok"
        THEN /\ frames' = r.bitmaps
             /\ pc' = "CheckFramesEmpty"
             /\ error' = error
        ELSE /\ frames' = frames
             /\ Throw(r.status)
  /\ Log("LoadFrames", -1)
  /\ UNCHANGED <<inputs, debugLevel, frameSize, backgrounds, gpu, output, b, i,
                 exitCode>>

\* The empty check without its co_return.
CheckFramesEmpty_NoReturn ==
  /\ pc = "CheckFramesEmpty"
  /\ pc' = "CheckFrameSizes"
  /\ IF frames = <<>> THEN Log("NoFrames", -1) ELSE trace' = trace
  /\ UNCHANGED <<inputs, debugLevel, loaded, gpu, output, b, i, error, exitCode>>

\* Lines 71-75: no frames, co_return.
CheckFramesEmpty ==
  /\ pc = "CheckFramesEmpty"
  /\ IF frames = <<>>
     THEN pc' = "Returned" /\ Log("NoFrames", -1)
     ELSE pc' = "CheckFrameSizes" /\ trace' = trace
  /\ UNCHANGED <<inputs, debugLevel, loaded, gpu, output, b, i, error, exitCode>>

\* ID2D1Bitmap::GetPixelSize
GetPixelSize(bitmap) == [width |-> bitmap.w, height |-> bitmap.h]

\* A size test with && where the code has ||.
SizeMismatch_BothDiffer(bitmaps, size) ==
  \E k \in 1..Len(bitmaps) :
     /\ bitmaps[k].w # size.width
     /\ bitmaps[k].h # size.height

\* A size test that also rejects a single bitmap.
SizeMismatch_RejectsSingle(bitmaps, size) ==
  \/ Len(bitmaps) = 1
  \/ \E k \in 1..Len(bitmaps) :
        bitmaps[k].w # size.width \/ bitmaps[k].h # size.height

\* The test of both size loops: some bitmap differs from size.
SizeMismatch(bitmaps, size) ==
  \E k \in 1..Len(bitmaps) :
     \/ GetPixelSize(bitmaps[k]).width # size.width
     \/ GetPixelSize(bitmaps[k]).height # size.height

\* Lines 77-85: every frame has the size of frames[0].
CheckFrameSizes ==
  /\ pc = "CheckFrameSizes"
  /\ frameSize' = GetPixelSize(frames[1])
  /\ IF SizeMismatch(frames, frameSize')
     THEN Throw("DimensionMismatch")
     ELSE pc' = "LoadBackgrounds" /\ error' = error
  /\ UNCHANGED <<inputs, debugLevel, frames, backgrounds, gpu, output, b, i,
                 trace, exitCode>>

\* Line 88: co_await LoadBitmapsAsync(..., backgroundPath)
LoadBackgrounds ==
  /\ pc = "LoadBackgrounds"
  /\ \E r \in { LoadBitmapsAsync(backgroundPath) } :
        IF r.status = "ok"
        THEN /\ backgrounds' = r.bitmaps
             /\ pc' = "CheckBackgroundSizes"
             /\ error' = error
        ELSE /\ backgrounds' = backgrounds
             /\ Throw(r.status)
  /\ Log("LoadBackgrounds", -1)
  /\ UNCHANGED <<inputs, debugLevel, frames, frameSize, gpu, output, b, i,
                 exitCode>>

\* Lines 89-96: every background has the size of the frames.
CheckBackgroundSizes ==
  /\ pc = "CheckBackgroundSizes"
  /\ IF SizeMismatch(backgrounds, frameSize)
     THEN Throw("DimensionMismatch")
     ELSE pc' = "CreateOutputFile" /\ error' = error
  /\ UNCHANGED <<inputs, debugLevel, loaded, gpu, output, b, i, trace, exitCode>>

\* Line 99: co_await util::CreateStorageFileFromPathAsync(outputPath)
CreateOutputFile ==
  /\ pc = "CreateOutputFile"
  /\ IF outputPath = "valid"
     THEN outputFile' = TRUE /\ pc' = "CreateRenderTarget" /\ error' = error
     ELSE outputFile' = outputFile /\ Throw("FileError")
  /\ Log("CreateStorageFileFromPathAsync", -1)
  /\ UNCHANGED <<inputs, debugLevel, loaded, gpu, stream, encoder, bytes, b, i,
                 exitCode>>

\* Lines 102-113: the render target texture and its bitmap.
CreateRenderTarget ==
  /\ pc = "CreateRenderTarget"
  /\ \E ok \in BOOLEAN, fill \in Garbage :
       IF ok
       THEN /\ renderTargetTexture' =
                 CreateTexture2D(frameSize.width, frameSize.height, fill)
            /\ pc' = "CreateBackgroundTemplate"
            /\ error' = error
       ELSE /\ renderTargetTexture' = renderTargetTexture
            /\ fill = Transparent
            /\ Throw("DeviceError")
  /\ Log("CreateRenderTarget", -1)
  /\ UNCHANGED <<inputs, debugLevel, loaded, backgroundTemplateTexture,
                 stagingTexture, target, drawOpen, output, b, i, exitCode>>

\* Lines 116-118: the background template texture and its bitmap.
CreateBackgroundTemplate ==
  /\ pc = "CreateBackgroundTemplate"
  /\ \E ok \in BOOLEAN, fill \in Garbage :
       IF ok
       THEN /\ backgroundTemplateTexture' =
                 CreateTexture2D(frameSize.width, frameSize.height, fill)
            /\ pc' = "CreateStagingTexture"
            /\ error' = error
       ELSE /\ backgroundTemplateTexture' = backgroundTemplateTexture
            /\ fill = Transparent
            /\ Throw("DeviceError")
  /\ Log("CreateBackgroundTemplate", -1)
  /\ UNCHANGED <<inputs, debugLevel, loaded, renderTargetTexture,
                 stagingTexture, target, drawOpen, output, b, i, exitCode>>

\* Lines 121-125: the CPU-readable staging texture.
CreateStagingTexture ==
  /\ pc = "CreateStagingTexture"
  /\ \E ok \in BOOLEAN, fill \in Garbage :
       IF ok
       THEN /\ stagingTexture' =
                 CreateTexture2D(frameSize.width, frameSize.height, fill)
            /\ pc' = "SetTargetTemplate"
            /\ error' = error
       ELSE /\ stagingTexture' = stagingTexture
            /\ fill = Transparent
            /\ Throw("DeviceError")
  /\ Log("CreateStagingTexture", -1)
  /\ UNCHANGED <<inputs, debugLevel, loaded, renderTargetTexture,
                 backgroundTemplateTexture, target, drawOpen, output, b, i,
                 exitCode>>

\* Line 128: d2dContext->SetTarget(backgroundTemplate.get())
SetTargetTemplate ==
  /\ pc = "SetTargetTemplate"
  /\ target' = "backgroundTemplate"
  /\ pc' = "TemplateBeginDraw"
  /\ Log("SetTarget", -1)
  /\ UNCHANGED <<inputs, debugLevel, loaded, renderTargetTexture,
                 backgroundTemplateTexture, stagingTexture, drawOpen, output,
                 b, i, error, exitCode>>

\* Line 130: d2dContext->BeginDraw()
TemplateBeginDraw ==
  /\ pc = "TemplateBeginDraw"
  /\ drawOpen' = TRUE
  /\ pc' = "TemplateClear"
  /\ Log("BeginDraw", -1)
  /\ UNCHANGED <<inputs, debugLevel, loaded, renderTargetTexture,
                 backgroundTemplateTexture, stagingTexture, target, output,
                 b, i, error, exitCode>>

\* The texture behind the bitmap the D2D context draws into.
TargetTexture ==
  IF target = "renderTarget" THEN renderTargetTexture
  ELSE backgroundTemplateTexture

\* A draw call leaves texture behind the bitmap the D2D context draws into.
DrawInto(texture) ==
  /\ renderTargetTexture' =
       IF target = "renderTarget" THEN texture ELSE renderTargetTexture
  /\ backgroundTemplateTexture' =
       IF target = "backgroundTemplate" THEN texture
       ELSE backgroundTemplateTexture

\* Line 131 left out: the backgrounds are drawn onto whatever the new
\* texture held.
TemplateClear_Missing ==
  /\ pc = "TemplateClear"
  /\ b' = 1
  /\ pc' = "TemplateDrawBackgrounds"
  /\ Log("Clear", -1)
  /\ UNCHANGED <<inputs, debugLevel, loaded, gpu, output, i, error, exitCode>>

\* Line 131: d2dContext->Clear(&clearColor)
TemplateClear ==
  /\ pc = "TemplateClear"
  /\ DrawInto(Clear(TargetTexture, clearColor))
  /\ b' = 1
  /\ pc' = "TemplateDrawBackgrounds"
  /\ Log("Clear", -1)
  /\ UNCHANGED <<inputs, debugLevel, loaded, stagingTexture, target, drawOpen,
                 output, i, error, exitCode>>

\* Lines 132-135: one turn of the background loop, or its end.
TemplateDrawBackground ==
  /\ pc = "TemplateDrawBackgrounds"
  /\ IF b <= Len(backgrounds)
     THEN /\ DrawInto(DrawBitmap(TargetTexture, backgrounds[b]))
          /\ b' = b + 1
          /\ pc' = pc
          /\ Log("DrawBackground", b)
     ELSE /\ UNCHANGED <<renderTargetTexture, backgroundTemplateTexture, b,
                         trace>>
          /\ pc' = "TemplateEndDraw"
  /\ UNCHANGED <<inputs, debugLevel, loaded, stagingTexture, target, drawOpen,
                 output, i, error, exitCode>>

\* Line 136: winrt::check_hresult(d2dContext->EndDraw())
TemplateEndDraw ==
  /\ pc = "TemplateEndDraw"
  /\ drawOpen' = FALSE
  /\ \E ok \in BOOLEAN :
       IF ok THEN pc' = "SetTargetRenderTarget" /\ error' = error
       ELSE Throw("DeviceError")
  /\ Log("EndDraw", -1)
  /\ UNCHANGED <<inputs, debugLevel, loaded, renderTargetTexture,
                 backgroundTemplateTexture, stagingTexture, target, output,
                 b, i, exitCode>>

\* Line 141 left out: the template stays the target of the frame passes.
SetTargetRenderTarget_Forgotten ==
  /\ pc = "SetTargetRenderTarget"
  /\ pc' = "OpenStream"
  /\ Log("SetTarget", -1)
  /\ UNCHANGED <<inputs, debugLevel, loaded, gpu, output, b, i, error,
                 exitCode>>

\* Lines 140-141: d2dContext->SetTarget(renderTarget.get())
SetTargetRenderTarget ==
  /\ pc = "SetTargetRenderTarget"
  /\ target' = "renderTarget"
  /\ pc' = "OpenStream"
  /\ Log("SetTarget", -1)
  /\ UNCHANGED <<inputs, debugLevel, loaded, renderTargetTexture,
                 backgroundTemplateTexture, stagingTexture, drawOpen, output,
                 b, i, error, exitCode>>

\* Line 143: co_await outputFile.OpenAsync(FileAccessMode::ReadWrite)
OpenStream ==
  /\ pc = "OpenStream"
  /\ \E ok \in BOOLEAN :
       IF ok THEN stream' = TRUE /\ pc' = "CreateGifEncoder" /\ error' = error
       ELSE stream' = stream /\ Throw("FileError")
  /\ Log("OpenAsync", -1)
  /\ UNCHANGED <<inputs, debugLevel, loaded, gpu, outputFile, encoder, bytes,
                 b, i, exitCode>>

\* A container or frame property as SetPropertiesAsync receives it.
Property(key, type, value) == [key |-> key, type |-> type, value |-> value]

\* An encoder whose looping data block was left out.
CreateGifEncoderAsync_NoLoopBlock ==
  [created |-> TRUE,
   container |-> << [key |-> "/appext/application", type |-> "UInt8Array",
                     value |-> NetscapeText] >>,
   committed |-> <<>>, props |-> <<>>, pixels |-> <<>>, flushed |-> FALSE]

\* Lines 317-338: CreateGifEncoderAsync: the encoder with its two container
\* properties.
CreateGifEncoderAsync ==
  [NoEncoder EXCEPT
     !.created = TRUE,
     !.container =
        << Property("/appext/application", "UInt8Array", NetscapeText),
           Property("/appext/data", "UInt8Array", LoopBlock) >>]

\* Line 144: co_await CreateGifEncoderAsync(stream), then i = 0.  Either
\* await inside CreateGifEncoderAsync may throw.
CreateGifEncoder ==
  /\ pc = "CreateGifEncoder"
  /\ \E outcome \in {"ok", "createThrows", "setPropertiesThrows"} :
       /\ trace' = trace \o
            (IF outcome = "createThrows"
             THEN << Call("BitmapEncoder::CreateAsync", -1, FALSE) >>
             ELSE << Call("BitmapEncoder::CreateAsync", -1, TRUE),
                     Call("SetContainerProperties", -1, outcome = "ok") >>)
       /\ IF outcome = "ok"
          THEN /\ encoder' = CreateGifEncoderAsync
               /\ pc' = "LoopTest"
               /\ error' = error
          ELSE /\ encoder' = encoder
               /\ Throw("EncoderError")
  /\ i' = 0
  /\ UNCHANGED <<inputs, debugLevel, loaded, gpu, outputFile, stream, bytes, b,
                 exitCode>>

\* A loop that stops one frame early.
LoopCondition_OffByOne(index, size) == index < size - 1

\* A loop that takes one more turn.
LoopCondition_Inclusive(index, size) == index >= 0 /\ index <= size

\* Line 146: i < frames.size(). The int index is converted to size_t for
\* the comparison: a negative index becomes a value above every size.
LoopCondition(index, size) == index >= 0 /\ index < size

\* An advance after every frame, the last one too.
AdvanceCondition_EveryFrame(index, size) == index < size

\* Line 175: i < frames.size() - 1, computed in size_t: of size 0 the right
\* side wraps to SIZE_MAX, which only the converted index -1 is not below.
AdvanceCondition(index, size) ==
  IF size = 0 THEN index # -1 ELSE index >= 0 /\ index < size - 1

\* Line 146: the test of the encode loop.
LoopTest ==
  /\ pc = "LoopTest"
  /\ pc' = IF LoopCondition(i, Len(frames)) THEN "FrameBeginDraw" ELSE "Flush"
  /\ UNCHANGED <<inputs, debugLevel, loaded, gpu, output, b, i, trace, error,
                 exitCode>>

\* Line 151: d2dContext->BeginDraw()
FrameBeginDraw ==
  /\ pc = "FrameBeginDraw"
  /\ drawOpen' = TRUE
  /\ pc' = "FrameDrawTemplate"
  /\ Log("BeginDraw", i)
  /\ UNCHANGED <<inputs, debugLevel, loaded, renderTargetTexture,
                 backgroundTemplateTexture, stagingTexture, target, output,
                 b, i, error, exitCode>>

\* Line 152 left out: the frame is drawn onto what the target held.
FrameDrawTemplate_Missing ==
  /\ pc = "FrameDrawTemplate"
  /\ pc' = "FrameDrawFrame"
  /\ Log("DrawTemplate", i)
  /\ UNCHANGED <<inputs, debugLevel, loaded, gpu, output, b, i, error,
                 exitCode>>

\* Line 152: d2dContext->DrawBitmap(backgroundTemplate.get())
FrameDrawTemplate ==
  /\ pc = "FrameDrawTemplate"
  /\ DrawInto(DrawBitmap(TargetTexture, backgroundTemplateTexture))
  /\ pc' = "FrameDrawFrame"
  /\ Log("DrawTemplate", i)
  /\ UNCHANGED <<inputs, debugLevel, loaded, stagingTexture, target, drawOpen,
                 output, b, i, error, exitCode>>

\* Line 153: d2dContext->DrawBitmap(frame.get()), frame being frames[i]
FrameDrawFrame ==
  /\ pc = "FrameDrawFrame"
  /\ DrawInto(DrawBitmap(TargetTexture, frames[i + 1]))
  /\ pc' = "FrameEndDraw"
  /\ Log("DrawFrame", i)
  /\ UNCHANGED <<inputs, debugLevel, loaded, stagingTexture, target, drawOpen,
                 output, b, i, error, exitCode>>

\* A frame pass that is never ended.
FrameEndDraw_Missing ==
  /\ pc = "FrameEndDraw"
  /\ pc' = "CopyResource"
  /\ UNCHANGED <<inputs, debugLevel, loaded, gpu, output, b, i, trace, error,
                 exitCode>>

\* Line 154: winrt::check_hresult(d2dContext->EndDraw())
FrameEndDraw ==
  /\ pc = "FrameEndDraw"
  /\ drawOpen' = FALSE
  /\ \E ok \in BOOLEAN :
       IF ok THEN pc' = "CopyResource" /\ error' = error
       ELSE Throw("DeviceError")
  /\ Log("EndDraw", i)
  /\ UNCHANGED <<inputs, debugLevel, loaded, renderTargetTexture,
                 backgroundTemplateTexture, stagingTexture, target, output,
                 b, i, exitCode>>

\* CopyResource with destination and source exchanged.
CopyResource_Swapped ==
  /\ pc = "CopyResource"
  /\ renderTargetTexture' = stagingTexture
  /\ pc' = "CopyBytes"
  /\ Log("CopyResource", i)
  /\ UNCHANGED <<inputs, debugLevel, loaded, stagingTexture,
                 backgroundTemplateTexture, target, drawOpen, output, b, i,
                 error, exitCode>>

\* Line 155: d3dContext->CopyResource(stagingTexture, renderTargetTexture)
CopyResource ==
  /\ pc = "CopyResource"
  /\ stagingTexture' = renderTargetTexture
  /\ pc' = "CopyBytes"
  /\ Log("CopyResource", i)
  /\ UNCHANGED <<inputs, debugLevel, loaded, renderTargetTexture,
                 backgroundTemplateTexture, target, drawOpen, output, b, i,
                 error, exitCode>>

\* Line 158: auto bytes = util::CopyBytesFromTexture(stagingTexture)
CopyBytes ==
  /\ pc = "CopyBytes"
  /\ \E ok \in BOOLEAN :
       IF ok
       THEN /\ bytes' = CopyBytesFromTexture(stagingTexture)
            /\ pc' = "SetDelay"
            /\ error' = error
       ELSE /\ bytes' = bytes
            /\ Throw("DeviceError")
  /\ Log("CopyBytesFromTexture", i)
  /\ UNCHANGED <<inputs, debugLevel, loaded, gpu, outputFile, stream, encoder,
                 b, i, exitCode>>

\* Lines 161-164 as they would be if the delay followed the debug level.
SetDelay_DebugLevel ==
  /\ pc = "SetDelay"
  /\ \E ok \in BOOLEAN :
       IF ok
       THEN /\ encoder' =
                 [encoder EXCEPT !.props =
                    Append(@, Property("/grctlext/Delay", "UInt16",
                                       CastUInt16(IF debugLevel = "NONE"
                                                  THEN frameDelay
                                                  ELSE frameDelay + 1)))]
            /\ pc' = "SetPixelData"
            /\ error' = error
       ELSE /\ encoder' = encoder
            /\ Throw("EncoderError")
  /\ Log("SetDelay", i)
  /\ UNCHANGED <<inputs, debugLevel, loaded, gpu, outputFile, stream, bytes,
                 b, i, exitCode>>

\* Lines 161-164: co_await encoder.BitmapProperties().SetPropertiesAsync
SetDelay ==
  /\ pc = "SetDelay"
  /\ \E ok \in BOOLEAN :
       IF ok
       THEN /\ encoder' =
                 [encoder EXCEPT !.props =
                    Append(@, Property("/grctlext/Delay", "UInt16",
                                       CastUInt16(frameDelay)))]
            /\ pc' = "SetPixelData"
            /\ error' = error
       ELSE /\ encoder' = encoder
            /\ Throw("EncoderError")
  /\ Log("SetDelay", i)
  /\ UNCHANGED <<inputs, debugLevel, loaded, gpu, outputFile, stream, bytes,
                 b, i, exitCode>>

\* The arguments of encoder.SetPixelData as the encoder keeps them.
PixelData(width, height, data) ==
  [format |-> "Bgra8", alpha |-> "Premultiplied", width |-> width,
   height |-> height, dpiX |-> 1, dpiY |-> 1, bytes |-> data]

\* Lines 166-173: encoder.SetPixelData(...)
SetPixelData ==
  /\ pc = "SetPixelData"
  /\ \E ok \in BOOLEAN :
       IF ok
       THEN /\ encoder' =
                 [encoder EXCEPT !.pixels =
                    <<PixelData(frameSize.width, frameSize.height, bytes)>>]
            /\ pc' = "Advance"
            /\ error' = error
       ELSE /\ encoder' = encoder
            /\ Throw("EncoderError")
  /\ Log("SetPixelData", i)
  /\ UNCHANGED <<inputs, debugLevel, loaded, gpu, outputFile, stream, bytes,
                 b, i, exitCode>>

\* BitmapEncoder: the frame the encoder is on is closed and holds what was
\* set on it.
CloseFrame(e) ==
  [e EXCEPT !.committed = Append(@, [props |-> e.props, pixels |-> e.pixels]),
            !.props = <<>>,
            !.pixels = <<>>]

\* Lines 175-178 and the i++ of line 146.
Advance ==
  /\ pc = "Advance"
  /\ IF AdvanceCondition(i, Len(frames))
     THEN /\ \E ok \in BOOLEAN :
               IF ok
               THEN /\ encoder' = CloseFrame(encoder)
                    /\ i' = i + 1
                    /\ pc' = "LoopTest"
                    /\ error' = error
               ELSE /\ encoder' = encoder
                    /\ i' = i
                    /\ Throw("EncoderError")
          /\ Log("GoToNextFrameAsync", i)
     ELSE /\ i' = i + 1
          /\ pc' = "LoopTest"
          /\ UNCHANGED <<encoder, trace, error>>
  /\ UNCHANGED <<inputs, debugLevel, loaded, gpu, outputFile, stream, bytes,
                 b, exitCode>>

\* A flush that is tried again when it fails.
Flush_Retry ==
  /\ pc = "Flush"
  /\ \E ok \in BOOLEAN :
       IF ok
       THEN /\ encoder' = [CloseFrame(encoder) EXCEPT !.flushed = TRUE]
            /\ pc' = "PrintDone"
       ELSE /\ encoder' = encoder
            /\ pc' = "Flush"
       /\ trace' = Append(trace, Call("FlushAsync", -1, ok))
  /\ UNCHANGED <<inputs, debugLevel, loaded, gpu, outputFile, stream, bytes,
                 b, i, error, exitCode>>

\* Line 181: co_await encoder.FlushAsync()
Flush ==
  /\ pc = "Flush"
  /\ \E ok \in BOOLEAN :
       IF ok
       THEN /\ encoder' = [CloseFrame(encoder) EXCEPT !.flushed = TRUE]
            /\ pc' = "PrintDone"
            /\ error' = error
       ELSE /\ encoder' = encoder
            /\ Throw("EncoderError")
  /\ Log("FlushAsync", -1)
  /\ UNCHANGED <<inputs, debugLevel, loaded, gpu, outputFile, stream, bytes,
                 b, i, exitCode>>

\* Lines 184-186: "Done!" and co_return.
PrintDone ==
  /\ pc = "PrintDone"
  /\ pc' = "Returned"
  /\ Log("Done", -1)
  /\ UNCHANGED <<inputs, debugLevel, loaded, gpu, output, b, i, error, exitCode>>

\* -------------------------------------------------------------------- wmain
\* Lines 208-210: MainAsync(...).get() returned; return 0.
WmainReturn ==
  /\ pc = "Returned"
  /\ exitCode' = "0"
  /\ pc' = "Exited"
  /\ UNCHANGED <<inputs, debugLevel, loaded, gpu, output, b, i, trace, error>>

\* Line 208: .get() rethrows what MainAsync threw; nothing catches it.
WmainUnhandled ==
  /\ pc = "Aborted"
  /\ exitCode' = "fatal"
  /\ pc' = "Exited"
  /\ UNCHANGED <<inputs, debugLevel, loaded, gpu, output, b, i, trace, error>>

Next ==
  \/ InitD3D \/ InitD2D
  \/ LoadFrames \/ CheckFramesEmpty \/ CheckFrameSizes
  \/ LoadBackgrounds \/ CheckBackgroundSizes
  \/ CreateOutputFile
  \/ CreateRenderTarget \/ CreateBackgroundTemplate \/ CreateStagingTexture
  \/ SetTargetTemplate \/ TemplateBeginDraw \/ TemplateClear
  \/ TemplateDrawBackground \/ TemplateEndDraw
  \/ SetTargetRenderTarget
  \/ OpenStream \/ CreateGifEncoder
  \/ LoopTest
  \/ FrameBeginDraw \/ FrameDrawTemplate \/ FrameDrawFrame \/ FrameEndDraw
  \/ CopyResource \/ CopyBytes
  \/ SetDelay \/ SetPixelData \/ Advance
  \/ Flush \/ PrintDone
  \/ WmainReturn \/ WmainUnhandled

Spec == Init /\ [][Next]_vars


\* ------------------------------------------------------------ a second run
\* The program is started again on the same paths once its first run has
\* ended, with the debug layer as given; the first run leaves behind the
\* calls it made, what its encoder held and how it ended.
Rerun(debug) ==
  /\ pc = "Exited" /\ run = 1
  /\ run' = 2
  /\ first' = [useDebugLayer |-> useDebugLayer, trace |-> trace,
               encoder |-> encoder, error |-> error, exitCode |-> exitCode]
  /\ useDebugLayer' = debug
  /\ args' = CommandLine(debug, framesPath, backgroundPath, outputPath)
  /\ pc' = "InitD3D"
  /\ debugLevel' = "unset"
  /\ frames' = <<>> /\ backgrounds' = <<>>
  /\ frameSize' = [width |-> 0, height |-> 0]
  /\ outputFile' = FALSE /\ stream' = FALSE
  /\ renderTargetTexture' = NoTexture
  /\ backgroundTemplateTexture' = NoTexture
  /\ stagingTexture' = NoTexture
  /\ target' = "none"
  /\ drawOpen' = FALSE
  /\ b' = 0 /\ i' = 0
  /\ bytes' = <<>>
  /\ encoder' = NoEncoder
  /\ trace' = <<>>
  /\ error' = "none"
  /\ exitCode' = "running"
  /\ UNCHANGED <<framesPath, backgroundPath, outputPath>>

\* The same command line again.
RunAgain == Rerun(useDebugLayer)

\* The same command line again but for -dxDebug.
RunAgainOtherDebug == Rerun(~useDebugLayer)

\* The paths two runs are compared on: nothing, or a directory holding the
\* first k files of FilePool, k <= n.
PrefixPaths(n) ==
  { [kind |-> "missing", entries |-> <<>>] }
  \cup { [kind |-> "dir", entries |-> SubSeq(FilePool, 1, k)] : k \in 0..n }

InitPair ==
  /\ Init
  /\ framesPath \in PrefixPaths(MaxFrames)
  /\ backgroundPath \in PrefixPaths(MaxBackgrounds)

\* The paths termination is followed on: those of PrefixPaths, a file, a
\* directory whose second image has another size, a directory whose image
\* does not decode.
FairPaths(n) ==
  PrefixPaths(n)
  \cup { [kind |-> "file", entries |-> <<>>],
         [kind |-> "dir", entries |-> SelectEntries({1, 4}, 1)],
         [kind |-> "dir", entries |-> SelectEntries({6}, 1)] }

InitFair ==
  /\ Init
  /\ framesPath \in FairPaths(MaxFrames)
  /\ backgroundPath \in FairPaths(MaxBackgrounds)

\* Every awaited operation completes or fails, and the thread that runs the
\* coroutine is scheduled: a step that can be taken is taken.
SpecFair == InitFair /\ [][Next]_vars /\ WF_vars(Next)

NextRerun == Next \/ RunAgain

SpecRerun == InitPair /\ [][NextRerun]_vars

NextDebugPair == Next \/ RunAgainOtherDebug

SpecDebugPair == InitPair /\ [][NextDebugPair]_vars

\* ------------------------------------------------- a directory on its own
\* Entries the directory loop has to pass over: a sub-directory named like an
\* image, a file whose whole name is ".png", a file without extension.
OtherEntries ==
  << [name |-> <<115, 46, 112, 110, 103>>, kind |-> "dir", corrupt |-> FALSE,
      image |-> [w |-> 0, h |-> 0, px |-> <<>>]],                       \* s.png
     [name |-> <<46, 112, 110, 103>>,      kind |-> "file", corrupt |-> FALSE,
      image |-> [w |-> 1, h |-> 1, px |-> <<OpaqueRed>>]],              \* .png
     [name |-> <<110>>,                    kind |-> "file", corrupt |-> FALSE,
      image |-> [w |-> 1, h |-> 1, px |-> <<OpaqueRed>>]] >>            \* n

RECURSIVE Enumerations(_, _)
\* The orders in which a directory of at most n of these entries may be
\* enumerated.
Enumerations(pool, n) ==
  IF n = 0 THEN { <<>> }
  ELSE LET shorter == Enumerations(pool, n - 1)
       IN shorter
          \cup { Append(l, e) : l \in shorter,
                                e \in { pool[k] : k \in DOMAIN pool } }

\* The paths LoadBitmapsAsync is tried on: nothing, a file, or a directory
\* of distinct entries in any enumeration order.
LoadPaths(n) ==
  { [kind |-> "missing", entries |-> <<>>], [kind |-> "file", entries |-> <<>>] }
  \cup { [kind |-> "dir", entries |-> l] :
           l \in { e \in Enumerations(FilePool \o OtherEntries, n) :
                     \A j, k \in DOMAIN e : j # k => e[j].name # e[k].name } }

\* MainAsync has its devices (line 67) and is about to load the frames.
InitLoad ==
  /\ pc = "LoadFrames"
  /\ useDebugLayer = FALSE
  /\ framesPath \in LoadPaths(MaxEntries)
  /\ backgroundPath = [kind |-> "dir", entries |-> <<>>]
  /\ outputPath = "valid"
  /\ args = CommandLine(useDebugLayer, framesPath, backgroundPath, outputPath)
  /\ run = 1
  /\ first = NoRun
  /\ debugLevel = "NONE"
  /\ frames = <<>> /\ backgrounds = <<>>
  /\ frameSize = [width |-> 0, height |-> 0]
  /\ outputFile = FALSE /\ stream = FALSE
  /\ renderTargetTexture = NoTexture
  /\ backgroundTemplateTexture = NoTexture
  /\ stagingTexture = NoTexture
  /\ target = "none"
  /\ drawOpen = FALSE
  /\ b = 0 /\ i = 0
  /\ bytes = <<>>
  /\ encoder = NoEncoder
  /\ trace = << Call("CreateD3DDevice", -1, TRUE),
                Call("CreateDeviceContext", -1, TRUE) >>
  /\ error = "none"
  /\ exitCode = "running"

NextLoad == LoadFrames

SpecLoad == InitLoad /\ [][NextLoad]_vars

\* ---------------------------------------------------------- the command line
\* An empty string, and what GetFlagValue returns when it has no value.
EmptyWord == Word("", [kind |-> "missing", entries |-> <<>>], "invalid")

\* robmikh::common::wcli::impl::GetFlag as called in lines 217 and 237: is
\* one of the names a word of the command line?
GetFlag(words, names) == \E k \in DOMAIN words : words[k].text \in names

\* robmikh::common::wcli::impl::GetFlagValue as called in lines 222, 228 and
\* 234: the word after the first word that is one of the names, the empty
\* string if there is no such word or none after it.
GetFlagValue(words, names) ==
  LET found == { k \in DOMAIN words : words[k].text \in names }
  IN IF found = {} THEN EmptyWord
     ELSE LET k == CHOOSE n \in found : \A m \in found : n <= m
          IN IF k = Len(words) THEN EmptyWord ELSE words[k + 1]

\* Lines 213-247 with the frames path looked at before the help flags.
CliResult_HelpLast(words) ==
  IF GetFlagValue(words, {"-f", "/f"}).text = "" THEN "InvalidFrames"
  ELSE IF GetFlag(words, {"-help"}) \/ GetFlag(words, {"/?"}) THEN "Help"
  ELSE IF GetFlagValue(words, {"-b", "/b"}).text = "" THEN "InvalidBackground"
  ELSE IF GetFlagValue(words, {"-o", "/o"}).text = "" THEN "InvalidOutput"
  ELSE "Valid"

\* Lines 213-247: what ParseOptions returns.
CliResult(words) ==
  IF GetFlag(words, {"-help"}) \/ GetFlag(words, {"/?"}) THEN "Help"
  ELSE IF GetFlagValue(words, {"-f", "/f"}).text = "" THEN "InvalidFrames"
  ELSE IF GetFlagValue(words, {"-b", "/b"}).text = "" THEN "InvalidBackground"
  ELSE IF GetFlagValue(words, {"-o", "/o"}).text = "" THEN "InvalidOutput"
  ELSE "Valid"

\* Lines 189-211 up to the call of MainAsync: wmain parses the command line,
\* prints and returns 0 on Help, prints and returns 1 on Invalid, and
\* otherwise starts MainAsync on the parsed options.
ParseOptions ==
  /\ pc = "wmain"
  /\ LET cliResult == CliResult(args)
     IN IF cliResult = "Valid"
        THEN /\ useDebugLayer' = GetFlag(args, {"-dxDebug", "/dxDebug"})
             /\ framesPath' = GetFlagValue(args, {"-f", "/f"}).path
             /\ backgroundPath' = GetFlagValue(args, {"-b", "/b"}).path
             /\ outputPath' = GetFlagValue(args, {"-o", "/o"}).out
             /\ pc' = "InitD3D"
             /\ UNCHANGED <<trace, exitCode>>
        ELSE /\ trace' = Append(trace,
                   Call(IF cliResult = "Help" THEN "PrintHelp" ELSE cliResult,
                        -1, TRUE))
             /\ exitCode' = IF cliResult = "Help" THEN "0" ELSE "1"
             /\ pc' = "Exited"
             /\ UNCHANGED <<useDebugLayer, framesPath, backgroundPath,
                            outputPath>>
  /\ UNCHANGED <<args, run, first, debugLevel, loaded, gpu, output, b, i,
                 error>>

\* The options command lines are made of: the help and debug flags, a value
\* flag with its value (a directory, a file to create, or an empty string),
\* and a value flag with nothing of its own after it.
CliOptions ==
  LET dir(k) == [kind |-> "dir", entries |-> SubSeq(FilePool, 1, k)]
      nothing == [kind |-> "missing", entries |-> <<>>]
  IN { <<Flag(f)>> : f \in {"-help", "/?", "-dxDebug", "/dxDebug",
                             "-f", "-o"} }
     \cup { <<Flag(f), w>> :
              f \in {"-f", "/f"},
              w \in {EmptyWord, Word("frames", dir(MaxFrames), "invalid")} }
     \cup { <<Flag(f), w>> :
              f \in {"-b", "/b"},
              w \in {EmptyWord,
                     Word("backgrounds", dir(MaxBackgrounds), "invalid")} }
     \cup { <<Flag(f), w>> :
              f \in {"-o", "/o"},
              w \in {EmptyWord, Word("out.gif", nothing, "valid")} }

RECURSIVE CommandLines(_)
\* The command lines of at most n options.
CommandLines(n) ==
  IF n = 0 THEN { <<>> }
  ELSE LET shorter == CommandLines(n - 1)
       IN shorter \cup { l \o o : l \in shorter, o \in CliOptions }

\* Lines 189-196: the process starts with some command line; options = {}.
InitCli ==
  /\ pc = "wmain"
  /\ args \in CommandLines(MaxOptions)
  /\ run = 1
  /\ first = NoRun
  /\ useDebugLayer = FALSE
  /\ framesPath = [kind |-> "missing", entries |-> <<>>]
  /\ backgroundPath = [kind |-> "missing", entries |-> <<>>]
  /\ outputPath = "invalid"
  /\ debugLevel = "unset"
  /\ frames = <<>> /\ backgrounds = <<>>
  /\ frameSize = [width |-> 0, height |-> 0]
  /\ outputFile = FALSE /\ stream = FALSE
  /\ renderTargetTexture = NoTexture
  /\ backgroundTemplateTexture = NoTexture
  /\ stagingTexture = NoTexture
  /\ target = "none"
  /\ drawOpen = FALSE
  /\ b = 0 /\ i = 0
  /\ bytes = <<>>
  /\ encoder = NoEncoder
  /\ trace = <<>>
  /\ error = "none"
  /\ exitCode = "running"

NextCli == ParseOptions \/ Next

SpecCli == InitCli /\ [][NextCli]_vars

\* ================================================================== claims
\* The calls of trace whose name is in ops, as <<name, arg>> pairs.
Calls(ops) ==
  LET sel == SelectSeq(trace, LAMBDA e : e.op \in ops)
  IN [k \in 1..Len(sel) |-> <<sel[k].op, sel[k].arg>>]

\* Positions of trace at which op was called.
Positions(op) == { k \in DOMAIN trace : trace[k].op = op }

IsPrefix(s, t) == Len(s) <= Len(t) /\ SubSeq(t, 1, Len(s)) = s

\* MainAsync got through FlushAsync: nothing failed.
RunFlushed == encoder.flushed

\* The common size of the Frame Set.
FrameW == frames[1].w
FrameH == frames[1].h

RECURSIVE CompositePixel(_, _, _)
\* Pixel k of: bitmaps drawn in order, source-over, onto a pixel.
CompositePixel(pixel, bitmaps, k) ==
  IF bitmaps = <<>> THEN pixel
  ELSE CompositePixel(SourceOver(Head(bitmaps).px[k], pixel), Tail(bitmaps), k)

\* The backgrounds drawn in order onto opaque white.
WhiteComposite ==
  [w |-> FrameW, h |-> FrameH,
   px |-> [k \in 1..(FrameW * FrameH) |->
             CompositePixel(<<255, 255, 255, 255>>, backgrounds, k)]]

\* The bytes of a frame drawn over the white composite.
RenderedBytes(frame) ==
  LET px == [k \in 1..(FrameW * FrameH) |->
               SourceOver(frame.px[k], WhiteComposite.px[k])]
  IN [n \in 1..(4 * FrameW * FrameH) |-> px[((n - 1) \div 4) + 1][((n - 1) % 4) + 1]]

\* C1: a run in which nothing fails commits exactly N frames to the encoder,
\* one per input frame in Frame Set order, each of the common width and
\* height of the Frame Set.
C1_OneFramePerInput ==
  RunFlushed =>
    /\ Len(frames) >= 1
    /\ \A k \in 1..Len(frames) : frames[k].w = FrameW /\ frames[k].h = FrameH
    /\ \A k \in 1..Len(backgrounds) :
         backgrounds[k].w = FrameW /\ backgrounds[k].h = FrameH
    /\ Len(encoder.committed) = Len(frames)
    /\ Calls({"SetPixelData"}) =
         [k \in 1..Len(frames) |-> <<"SetPixelData", k - 1>>]
    /\ \A k \in 1..Len(frames) :
         /\ Len(encoder.committed[k].pixels) = 1
         /\ encoder.committed[k].pixels[1].width = FrameW
         /\ encoder.committed[k].pixels[1].height = FrameH
         /\ encoder.committed[k].pixels[1].bytes = RenderedBytes(frames[k])

\* Two frames over at least one background went through.
C1_Witness ==
  /\ RunFlushed /\ pc = "Exited"
  /\ Len(frames) = 2 /\ Len(backgrounds) >= 1
  /\ Len(encoder.committed) = 2

RECURSIVE ExpectedEncoderCalls(_, _)
\* What the encode loop asks of the encoder from frame k on, N frames in all.
ExpectedEncoderCalls(k, n) ==
  IF k >= n THEN << <<"FlushAsync", -1>> >>
  ELSE << <<"SetDelay", k>>, <<"SetPixelData", k>> >>
       \o (IF k < n - 1 THEN << <<"GoToNextFrameAsync", k>> >> ELSE <<>>)
       \o ExpectedEncoderCalls(k + 1, n)

EncoderCalls ==
  Calls({"SetDelay", "SetPixelData", "GoToNextFrameAsync", "FlushAsync"})

\* C2: the encoder is driven in strict order: per frame the delay (13, as
\* UInt16) then the pixel data, GoToNextFrameAsync between consecutive frames
\* only (N-1 times), FlushAsync once, after the pixel data of all N frames.
C2_EncoderCallOrder ==
  /\ IsPrefix(EncoderCalls, ExpectedEncoderCalls(0, Len(frames)))
  /\ RunFlushed =>
       /\ EncoderCalls = ExpectedEncoderCalls(0, Len(frames))
       /\ Cardinality(Positions("GoToNextFrameAsync")) = Len(frames) - 1
       /\ Cardinality(Positions("FlushAsync")) = 1
  /\ \A k \in 1..Len(encoder.committed) :
       encoder.committed[k].props =
         << [key |-> "/grctlext/Delay", type |-> "UInt16", value |-> 13] >>
  /\ encoder.pixels # <<>> =>
       encoder.props =
         << [key |-> "/grctlext/Delay", type |-> "UInt16", value |-> 13] >>

C2_Witness ==
  /\ RunFlushed
  /\ Len(frames) = 2
  /\ Cardinality(Positions("GoToNextFrameAsync")) = 1

\* C3: the two container properties ('NETSCAPE2.0', 11 bytes, and
\* {3,1,0,0,0}) are written once, by CreateGifEncoderAsync, after the encoder
\* is constructed and before any frame's delay or pixel data; never again.
C3_ContainerMetadataOnce ==
  /\ Cardinality(Positions("SetContainerProperties")) <= 1
  /\ \A k \in Positions("SetContainerProperties") :
       /\ k > 1
       /\ trace[k - 1] = [op |-> "BitmapEncoder::CreateAsync", arg |-> -1,
                          ok |-> TRUE]
  /\ \A k \in Positions("SetDelay") \cup Positions("SetPixelData")
              \cup Positions("GoToNextFrameAsync") \cup Positions("FlushAsync") :
       \E c \in Positions("SetContainerProperties") : c < k /\ trace[c].ok
  /\ encoder.created =>
       /\ Cardinality(Positions("SetContainerProperties")) = 1
       /\ encoder.container =
            << [key |-> "/appext/application", type |-> "UInt8Array",
                value |-> <<78, 69, 84, 83, 67, 65, 80, 69, 50, 46, 48>>],
               [key |-> "/appext/data", type |-> "UInt8Array",
                value |-> <<3, 1, 0, 0, 0>>] >>
       /\ Len(encoder.container[1].value) = 11

C3_Witness ==
  /\ RunFlushed
  /\ Len(encoder.committed) = 2
  /\ Cardinality(Positions("SetContainerProperties")) = 1

RECURSIVE ExpectedFrameCalls(_, _)
\* What one turn of the encode loop does for frame k, and the turns after it.
ExpectedFrameCalls(k, n) ==
  IF k >= n THEN <<>>
  ELSE << <<"BeginDraw", k>>, <<"DrawTemplate", k>>, <<"DrawFrame", k>>,
          <<"EndDraw", k>>, <<"CopyResource", k>>,
          <<"CopyBytesFromTexture", k>>, <<"SetDelay", k>>,
          <<"SetPixelData", k>> >>
       \o ExpectedFrameCalls(k + 1, n)

\* The draw, copy, read-back and encoder calls made inside the encode loop.
FrameCalls ==
  LET all == Calls({"BeginDraw", "DrawTemplate", "DrawFrame", "EndDraw",
                    "CopyResource", "CopyBytesFromTexture", "SetDelay",
                    "SetPixelData"})
  IN SelectSeq(all, LAMBDA c : c[2] >= 0)

\* The pixel data the encoder holds for frame k (1-based), <<>> if none yet.
PixelsOfFrame(k) ==
  IF k <= Len(encoder.committed) THEN encoder.committed[k].pixels
  ELSE IF k = Len(encoder.committed) + 1 THEN encoder.pixels
  ELSE <<>>

\* C4: each turn of the encode loop is BeginDraw, draw template, draw frame,
\* EndDraw, copy to staging, read bytes, then the encoder calls; the next
\* turn's BeginDraw comes after that; the bytes the encoder gets for frame i
\* are the render of frame i.
C4_RenderThenExtractThenEncode ==
  /\ IsPrefix(FrameCalls, ExpectedFrameCalls(0, Len(frames)))
  /\ \A k \in 1..Len(frames) :
       PixelsOfFrame(k) # <<>> =>
         /\ PixelsOfFrame(k)[1].bytes = RenderedBytes(frames[k])
         /\ \A j \in 1..Len(frames) :
              RenderedBytes(frames[j]) # RenderedBytes(frames[k]) =>
                PixelsOfFrame(k)[1].bytes # RenderedBytes(frames[j])
  /\ pc = "SetDelay" => bytes = RenderedBytes(frames[i + 1])

\* The second frame has been read back and differs from the first.
C4_Witness ==
  /\ pc = "SetPixelData" /\ i = 1
  /\ bytes = RenderedBytes(frames[2])
  /\ RenderedBytes(frames[2]) # RenderedBytes(frames[1])

\* Some frame differs in size from the first frame.
FrameMismatch ==
  /\ frames # <<>>
  /\ \E k \in 1..Len(frames) : frames[k].w # FrameW \/ frames[k].h # FrameH

\* Some background differs in size from the frames.
BackgroundMismatch ==
  /\ frames # <<>>
  /\ \E k \in 1..Len(backgrounds) :
       backgrounds[k].w # FrameW \/ backgrounds[k].h # FrameH

\* No surface, no output file, no encoder, no draw pass.
NothingRendered ==
  /\ renderTargetTexture = NoTexture
  /\ backgroundTemplateTexture = NoTexture
  /\ stagingTexture = NoTexture
  /\ ~outputFile /\ ~stream
  /\ encoder = NoEncoder
  /\ target = "none" /\ ~drawOpen
  /\ \A k \in DOMAIN trace :
       trace[k].op \in {"CreateD3DDevice", "CreateDeviceContext", "LoadFrames",
                        "LoadBackgrounds", "NoFrames"}

\* C5: a frame that differs from the first frame, or a background that
\* differs from the frames, ends the run with the dimension-mismatch error
\* before anything is rendered or created; a frame mismatch is found before
\* the backgrounds are loaded.
C5_MismatchAbortsBeforeRendering ==
  /\ FrameMismatch =>
       /\ pc \in {"CheckFramesEmpty", "CheckFrameSizes", "Aborted", "Exited"}
       /\ pc \in {"Aborted", "Exited"} => error = "DimensionMismatch"
       /\ pc = "Exited" => exitCode = "fatal"
       /\ Positions("LoadBackgrounds") = {} /\ backgrounds = <<>>
       /\ NothingRendered
  /\ BackgroundMismatch =>
       /\ pc \in {"CheckBackgroundSizes", "Aborted", "Exited"}
       /\ pc \in {"Aborted", "Exited"} => error = "DimensionMismatch"
       /\ pc = "Exited" => exitCode = "fatal"
       /\ NothingRendered

\* A background of another size ended the run.
C5_Witness ==
  /\ pc = "Exited" /\ error = "DimensionMismatch"
  /\ BackgroundMismatch /\ ~FrameMismatch
  /\ Len(frames) = 2

\* C6 as the spec has it: a Frame Set of exactly one frame raises the
\* dimension-mismatch error before any rendering.
C6_OneFrameIsAnError ==
  (Len(frames) = 1 /\ pc \notin {"CheckFramesEmpty", "CheckFrameSizes"}) =>
     /\ error = "DimensionMismatch"
     /\ Positions("BeginDraw") = {}

\* C6: a Frame Set of exactly one frame passes the frame size check; the
\* dimension-mismatch error then comes only from a background of another
\* size, and a run in which nothing fails encodes that one frame with no
\* GoToNextFrameAsync.
C6_OneFramePasses ==
  (Len(frames) = 1 /\ pc \notin {"CheckFramesEmpty", "CheckFrameSizes"}) =>
     /\ ~FrameMismatch
     /\ pc = "LoadBackgrounds" \/ Positions("LoadBackgrounds") # {}
     /\ error = "DimensionMismatch" => BackgroundMismatch
     /\ RunFlushed =>
          /\ Len(encoder.committed) = 1
          /\ encoder.committed[1].pixels # <<>>
          /\ Positions("GoToNextFrameAsync") = {}
          /\ Cardinality(Positions("BeginDraw")) = 2

\* One frame was rendered and encoded.
C6_Witness ==
  /\ Len(frames) = 1 /\ RunFlushed /\ pc = "Exited" /\ exitCode = "0"
  /\ Len(encoder.committed) = 1

\* The frames path is a directory with no regular file named *.png.
NoFrameFiles ==
  /\ framesPath.kind = "dir"
  /\ \A k \in 1..Len(framesPath.entries) :
       LET e == framesPath.entries[k]
       IN ~ /\ e.kind = "file"
            /\ Len(e.name) > 4
            /\ SubSeq(e.name, Len(e.name) - 3, Len(e.name)) = <<46, 112, 110, 103>>

\* C7: with zero frames MainAsync returns early without an exception and the
\* process exits 0; no background is loaded, no output file is created or
\* opened, no draw pass begun, no encoder created or flushed, whatever the
\* backgrounds path and the output path are.
C7_ZeroFramesEarlyReturn ==
  (NoFrameFiles /\ Positions("LoadFrames") # {}) =>
     /\ pc \in {"CheckFramesEmpty", "Returned", "Exited"}
     /\ error = "none"
     /\ pc = "Exited" => exitCode = "0"
     /\ frames = <<>> /\ backgrounds = <<>>
     /\ Positions("LoadBackgrounds") = {}
     /\ Positions("CreateStorageFileFromPathAsync") = {}
     /\ Positions("OpenAsync") = {}
     /\ Positions("BeginDraw") = {}
     /\ Positions("FlushAsync") = {}
     /\ NothingRendered

\* Early exit with a backgrounds path and an output path that are both bad.
C7_Witness ==
  /\ pc = "Exited" /\ exitCode = "0"
  /\ NoFrameFiles /\ framesPath.entries # <<>>
  /\ backgroundPath.kind = "missing" /\ outputPath = "invalid"
  /\ \E k \in DOMAIN trace : trace[k].op = "NoFrames"

\* The calls that suspend MainAsync (co_await).
AwaitCalls ==
  {"LoadFrames", "LoadBackgrounds", "CreateStorageFileFromPathAsync",
   "OpenAsync", "BitmapEncoder::CreateAsync", "SetContainerProperties",
   "SetDelay", "GoToNextFrameAsync", "FlushAsync"}

\* The calls that draw.
DrawCalls == {"Clear", "DrawBackground", "DrawTemplate", "DrawFrame"}

\* A draw pass is open after the first k calls of trace.
PassOpenAfter(k) ==
  Cardinality({ j \in 1..k : trace[j].op = "BeginDraw" })
    > Cardinality({ j \in 1..k : trace[j].op = "EndDraw" })

\* C8: at most one draw pass is open at any time: a BeginDraw comes only with
\* no pass open, an EndDraw only with one open, Clear and DrawBitmap only
\* inside a pass, and no co_await and no SetTarget inside a pass.
C8_OneDrawPassAtATime ==
  /\ \A k \in DOMAIN trace :
       /\ trace[k].op = "BeginDraw" => ~PassOpenAfter(k - 1)
       /\ trace[k].op = "EndDraw" => PassOpenAfter(k - 1)
       /\ trace[k].op \in DrawCalls => PassOpenAfter(k - 1)
       /\ trace[k].op \in AwaitCalls \cup {"SetTarget"} => ~PassOpenAfter(k - 1)
  /\ drawOpen = PassOpenAfter(Len(trace))
  /\ pc \in {"Returned", "Aborted", "Exited"} => ~drawOpen
  /\ RunFlushed =>
       Cardinality(Positions("BeginDraw")) = Len(frames) + 1
       /\ Cardinality(Positions("EndDraw")) = Len(frames) + 1

\* The compositor's pass and two frame passes, each closed, with awaits
\* between them.
C8_Witness ==
  /\ RunFlushed /\ Len(frames) = 2 /\ Len(backgrounds) >= 1
  /\ Cardinality(Positions("BeginDraw")) = 3
  /\ Cardinality(Positions("EndDraw")) = 3

\* The stage a successful call of trace completes; <<>> for a call that
\* completes none.  created: the name given to the creation of the output
\* file, opened: the name given to the opening of its stream.
StageOfCall(e, created, opened) ==
  IF ~e.ok THEN <<>>
  ELSE IF e.op = "CreateDeviceContext" THEN << <<"DeviceReady", -1>> >>
  ELSE IF e.op = "LoadFrames" THEN << <<"FramesLoaded", -1>> >>
  ELSE IF e.op = "LoadBackgrounds" THEN << <<"BackgroundsLoaded", -1>> >>
  ELSE IF e.op = "CreateStorageFileFromPathAsync" THEN created
  ELSE IF e.op = "EndDraw" /\ e.arg = -1 THEN << <<"TemplateBuilt", -1>> >>
  ELSE IF e.op = "OpenAsync" THEN opened
  ELSE IF e.op = "BeginDraw" /\ e.arg >= 0 THEN << <<"Encoding", e.arg>> >>
  ELSE IF e.op = "FlushAsync" THEN << <<"Flushed", -1>> >>
  ELSE IF e.op = "Done" THEN << <<"Done", -1>> >>
  ELSE <<>>

RECURSIVE StagesOf(_, _, _)
\* The stages the calls of t went through, in order.
StagesOf(t, created, opened) ==
  IF t = <<>> THEN <<>>
  ELSE StageOfCall(Head(t), created, opened) \o StagesOf(Tail(t), created, opened)

\* Encoding(0), ..., Encoding(n-1)
EncodingStages(n) == [k \in 1..n |-> <<"Encoding", k - 1>>]

\* C9 as the spec has it: the stages are Init, DeviceReady, FramesLoaded,
\* BackgroundsLoaded, OutputOpened, TemplateBuilt, Encoding(0..N-1), Flushed,
\* Done, the output being opened before the Background Template is built.
C9_OutputOpenedBeforeTemplate ==
  IsPrefix(
    << <<"Init", -1>> >> \o StagesOf(trace, <<>>, << <<"OutputOpened", -1>> >>),
    << <<"Init", -1>>, <<"DeviceReady", -1>>, <<"FramesLoaded", -1>>,
       <<"BackgroundsLoaded", -1>>, <<"OutputOpened", -1>>,
       <<"TemplateBuilt", -1>> >>
    \o EncodingStages(Len(frames))
    \o << <<"Flushed", -1>>, <<"Done", -1>> >>)

\* The stages of the run so far, the creation of the output file and the
\* opening of its stream being two stages.
Stages ==
  << <<"Init", -1>> >>
  \o StagesOf(trace, << <<"OutputCreated", -1>> >>, << <<"OutputOpened", -1>> >>)

\* C9: the stages are Init, DeviceReady, FramesLoaded, BackgroundsLoaded,
\* OutputCreated (the output file is created), TemplateBuilt, OutputOpened
\* (its stream is opened), Encoding(0..N-1) in ascending order, Flushed, Done;
\* each is entered at most once and none is gone back to.
C9_StageOrder ==
  LET expected ==
        << <<"Init", -1>>, <<"DeviceReady", -1>>, <<"FramesLoaded", -1>>,
           <<"BackgroundsLoaded", -1>>, <<"OutputCreated", -1>>,
           <<"TemplateBuilt", -1>>, <<"OutputOpened", -1>> >>
        \o EncodingStages(Len(frames))
        \o << <<"Flushed", -1>>, <<"Done", -1>> >>
      st == Stages
  IN /\ IsPrefix(st, expected)
     /\ \A j, k \in DOMAIN st : st[j] = st[k] => j = k
     /\ (RunFlushed /\ pc = "Exited") => st = expected

\* A whole run over two frames.
C9_Witness ==
  /\ RunFlushed /\ pc = "Exited" /\ Len(frames) = 2
  /\ Len(Stages) = 11

\* The compositor's draw pass has ended without an error.
TemplateBuilt ==
  \E k \in Positions("EndDraw") : trace[k].arg = -1 /\ trace[k].ok

\* C10: after the compositor's pass the Background Template has the size of
\* the frames and is opaque white with no backgrounds, otherwise b_1, ...,
\* b_k drawn source-over in input order on opaque white, so that a later
\* background hides the earlier ones wherever it is opaque.
C10_TemplateIsWhiteComposite ==
  TemplateBuilt =>
    LET t == backgroundTemplateTexture
        n == Len(backgrounds)
    IN /\ t.w = FrameW /\ t.h = FrameH
       /\ Len(t.px) = FrameW * FrameH
       /\ backgrounds = LoadBitmapsAsync(backgroundPath).bitmaps
       /\ Calls({"DrawBackground"}) = [k \in 1..n |-> <<"DrawBackground", k>>]
       /\ n = 0 => \A k \in 1..Len(t.px) : t.px[k] = <<255, 255, 255, 255>>
       /\ \A k \in 1..Len(t.px) :
            /\ t.px[k] = CompositePixel(<<255, 255, 255, 255>>, backgrounds, k)
            /\ t.px[k][4] = 255
            /\ \A j \in 1..n :
                 backgrounds[j].px[k][4] = 255 =>
                   t.px[k] = CompositePixel(backgrounds[j].px[k],
                                            SubSeq(backgrounds, j + 1, n), k)

\* Two backgrounds, the later one opaque where the earlier one is not clear.
C10_Witness ==
  /\ TemplateBuilt /\ Len(backgrounds) = 2
  /\ \E k \in 1..Len(backgroundTemplateTexture.px) :
       /\ backgrounds[2].px[k][4] = 255
       /\ backgrounds[1].px[k][4] > 0
       /\ backgroundTemplateTexture.px[k] = backgrounds[2].px[k]

\* C11: every failure is fatal and nothing is retried: a call that failed is
\* the last call of the run, no call is made twice for the same stage or
\* frame, and FlushAsync is called only after all N frames were committed
\* without a failure, so that a run that aborted never finalizes the container
\* (although its output file may exist).
C11_FailureIsFatal ==
  /\ \A k \in DOMAIN trace : ~trace[k].ok => k = Len(trace)
  /\ (\E k \in DOMAIN trace : ~trace[k].ok) =>
       /\ pc \in {"Aborted", "Exited"}
       /\ error \notin {"none", "DimensionMismatch"}
       /\ pc = "Exited" => exitCode = "fatal"
  /\ error # "none" =>
       /\ pc \in {"Aborted", "Exited"}
       /\ ~encoder.flushed
       /\ \A k \in Positions("FlushAsync") : ~trace[k].ok
       /\ Positions("Done") = {}
       /\ error = "DimensionMismatch" =>
            trace[Len(trace)].op \in {"LoadFrames", "LoadBackgrounds"}
       /\ error # "DimensionMismatch" => ~trace[Len(trace)].ok
  /\ \A j, k \in DOMAIN trace :
       (trace[j].op = trace[k].op /\ trace[j].arg = trace[k].arg /\ j # k) =>
          /\ trace[j].op = "SetTarget"
          /\ Cardinality(Positions("SetTarget")) = 2
  /\ \A k \in Positions("FlushAsync") :
       /\ Cardinality(Positions("FlushAsync")) = 1
       /\ \A j \in 1..(k - 1) : trace[j].ok
       /\ Calls({"SetPixelData"}) =
            [n \in 1..Len(frames) |-> <<"SetPixelData", n - 1>>]
       /\ Len(encoder.committed) + (IF encoder.flushed THEN 0 ELSE 1)
            = Len(frames)

\* The pixel commit of the second frame failed: the file exists, one frame
\* is committed, nothing was flushed.
C11_Witness ==
  /\ pc = "Exited" /\ error = "EncoderError" /\ exitCode = "fatal"
  /\ outputFile /\ stream
  /\ trace[Len(trace)] = [op |-> "SetPixelData", arg |-> 1, ok |-> FALSE]
  /\ Len(encoder.committed) = 1
  /\ Positions("FlushAsync") = {}

\* ------------------------------------------------------- two runs compared
\* The calls of the run in progress and of the first run agree in their
\* outcomes as far as both have got.
SameFailureBehaviour ==
  \A k \in DOMAIN trace \cap DOMAIN first.trace :
     trace[k].ok = first.trace[k].ok

\* The second run has made every call the first run made.
SecondRunComplete ==
  /\ run = 2 /\ pc = "Exited"
  /\ Len(trace) = Len(first.trace)

\* C12: the debug toggle has no effect on the output. Of two runs on the same
\* frames, backgrounds and output path that differ only in useDebugLayer and
\* meet the same outcomes of the environment's calls, the second makes the
\* calls of the first, the same operations on the same arguments in the same
\* order, and ends with the same encoded frames and metadata, the same error
\* and the same exit code.
C12_DebugLayerHasNoEffect ==
  (run = 2 /\ first.useDebugLayer # useDebugLayer /\ SameFailureBehaviour) =>
     /\ Len(trace) <= Len(first.trace)
     /\ \A k \in DOMAIN trace : trace[k] = first.trace[k]
     /\ SecondRunComplete =>
          /\ encoder = first.encoder
          /\ error = first.error
          /\ exitCode = first.exitCode

\* Two complete runs of two frames over a background, the first without the
\* debug layer and the second with it.
C12_Witness ==
  /\ SecondRunComplete /\ SameFailureBehaviour
  /\ ~first.useDebugLayer /\ useDebugLayer
  /\ debugLevel = "INFORMATION"
  /\ encoder.flushed /\ first.encoder.flushed
  /\ Len(encoder.committed) = 2
  /\ Len(backgrounds) >= 1

\* The encoder calls of a trace, as <<name, arg>> pairs.
EncoderCallsOf(tr) ==
  LET sel == SelectSeq(tr, LAMBDA e : e.op \in {"BitmapEncoder::CreateAsync",
                 "SetContainerProperties", "SetDelay", "SetPixelData",
                 "GoToNextFrameAsync", "FlushAsync"})
  IN [k \in 1..Len(sel) |-> <<sel[k].op, sel[k].arg>>]

\* What CreateGifEncoderAsync writes to the container.
NetscapeProperties ==
  << Property("/appext/application", "UInt8Array", NetscapeText),
     Property("/appext/data", "UInt8Array", LoopBlock) >>

\* C13: the pipeline is deterministic. Of two runs on the same frames,
\* backgrounds and output path, the frames the encoder has closed in both are
\* equal, frame for frame: the delay 13 and the same pixel bytes, whatever
\* the new textures held; both write 'NETSCAPE2.0' and {3,1,0,0,0} to the
\* container; and two runs that reach the flush made the same encoder calls
\* and leave the same encoder contents.
C13_Deterministic ==
  (run = 2 /\ first.useDebugLayer = useDebugLayer) =>
     LET mine   == encoder.committed
         theirs == first.encoder.committed
     IN /\ \A k \in DOMAIN mine \cap DOMAIN theirs : mine[k] = theirs[k]
        /\ \A k \in DOMAIN mine :
             mine[k].props = << Property("/grctlext/Delay", "UInt16", 13) >>
        /\ (encoder.created /\ first.encoder.created) =>
             /\ encoder.container = first.encoder.container
             /\ encoder.container = NetscapeProperties
        /\ (encoder.flushed /\ first.encoder.flushed) =>
             /\ encoder = first.encoder
             /\ EncoderCallsOf(trace) = EncoderCallsOf(first.trace)
             /\ Len(mine) = Len(frames)

\* Two flushed runs of two frames over a background with a clear pixel.
C13_Witness ==
  /\ run = 2 /\ pc = "Exited"
  /\ encoder.flushed /\ first.encoder.flushed
  /\ Len(encoder.committed) = 2
  /\ Len(backgrounds) >= 1
  /\ \E k \in DOMAIN backgrounds[1].px : backgrounds[1].px[k][4] < 255

\* ------------------------------------------------------------ command line
\* A help flag is a word of the command line.
HelpGiven == \E k \in DOMAIN args : args[k].text \in {"-help", "/?"}

\* Where the value of a flag stands: after the first word that is the flag
\* or its alias.
ValuePlaces(flag, alias) ==
  { k \in 2..Len(args) :
      /\ args[k - 1].text \in {flag, alias}
      /\ \A j \in 1..(k - 2) : args[j].text \notin {flag, alias} }

\* The flag has no value, or an empty one.
Missing(flag, alias) ==
  \A k \in ValuePlaces(flag, alias) : args[k].text = ""

\* wmain printed just this and ended with this exit code; MainAsync made no
\* call.
EndedAtCli(printed, code) ==
  /\ pc = "Exited"
  /\ trace = << [op |-> printed, arg |-> -1, ok |-> TRUE] >>
  /\ exitCode = code
  /\ ~outputFile /\ ~encoder.created /\ frames = <<>> /\ error = "none"

\* C14: the outcomes of wmain once the command line is parsed. With a help
\* flag the usage is printed and the exit code is 0, whatever else is given
\* or missing. Otherwise the first of the frames, background and output
\* values that is missing or empty gets its error line and the exit code is
\* 1. In all these cases MainAsync is not run. MainAsync runs exactly when
\* there is no help flag and all three values are given, and it runs on
\* those values.
C14_CliOutcomes ==
  pc # "wmain" =>
    LET noF == Missing("-f", "/f")
        noB == Missing("-b", "/b")
        noO == Missing("-o", "/o")
    IN /\ HelpGiven => EndedAtCli("PrintHelp", "0")
       /\ (~HelpGiven /\ noF) => EndedAtCli("InvalidFrames", "1")
       /\ (~HelpGiven /\ ~noF /\ noB) => EndedAtCli("InvalidBackground", "1")
       /\ (~HelpGiven /\ ~noF /\ ~noB /\ noO) =>
            EndedAtCli("InvalidOutput", "1")
       /\ (~HelpGiven /\ ~noF /\ ~noB /\ ~noO) =>
            /\ pc = "InitD3D" \/ trace # <<>>
            /\ trace # <<>> => trace[1].op = "CreateD3DDevice"
            /\ exitCode # "1"
            /\ \A k \in ValuePlaces("-f", "/f") : framesPath = args[k].path
            /\ \A k \in ValuePlaces("-b", "/b") :
                 backgroundPath = args[k].path
            /\ \A k \in ValuePlaces("-o", "/o") : outputPath = args[k].out
            /\ useDebugLayer =
                 (\E k \in DOMAIN args :
                     args[k].text \in {"-dxDebug", "/dxDebug"})

\* Help is asked for on a command line that gives no frames path.
C14_Witness ==
  /\ EndedAtCli("PrintHelp", "0")
  /\ Missing("-f", "/f")
  /\ ~Missing("-o", "/o")

\* -------------------------------------------------------- reading a directory
\* The entries of the frames directory that are images to load: regular
\* files whose name ends in ".png" after at least one other character.
PngFiles ==
  { e \in { framesPath.entries[k] : k \in DOMAIN framesPath.entries } :
      /\ e.kind = "file"
      /\ Len(e.name) > 4
      /\ SubSeq(e.name, Len(e.name) - 3, Len(e.name)) = <<46, 112, 110, 103>> }

\* How many of the images have a name before this one's.
Rank(e, files) == Cardinality({ f \in files : LexLess(f.name, e.name) })

\* C15: LoadBitmapsAsync on a directory gives one bitmap for each regular
\* file directly in it whose extension is exactly ".png" (case matters) and
\* for nothing else, in ascending order of file name whatever the order of
\* enumeration; no bitmap when no file matches; it fails with no bitmap when
\* the path is missing or not a directory, and when any one of the files
\* does not decode.
C15_LoadBitmaps ==
  pc # "LoadFrames" =>
    LET files == PngFiles
    IN /\ framesPath.kind # "dir" =>
            pc = "Aborted" /\ error = "InvalidPath" /\ frames = <<>>
       /\ (framesPath.kind = "dir" /\ \E e \in files : e.corrupt) =>
            pc = "Aborted" /\ error = "DecodeError" /\ frames = <<>>
       /\ (framesPath.kind = "dir" /\ \A e \in files : ~e.corrupt) =>
            /\ pc = "CheckFramesEmpty" /\ error = "none"
            /\ Len(frames) = Cardinality(files)
            /\ \A e \in files : frames[Rank(e, files) + 1] = e.image
       /\ trace[Len(trace)].op = "LoadFrames"
       /\ trace[Len(trace)].ok = (pc # "Aborted")

\* Three images enumerated in descending order of name are loaded in
\* ascending order, next to nothing else.
C15_Witness ==
  /\ pc = "CheckFramesEmpty"
  /\ Len(framesPath.entries) = 3
  /\ Len(frames) = 3
  /\ LexLess(framesPath.entries[3].name, framesPath.entries[2].name)
  /\ LexLess(framesPath.entries[2].name, framesPath.entries[1].name)
  /\ frames[1] = framesPath.entries[3].image

\* ------------------------------------------------------------ the encode loop
\* C16 as stated: in each turn of the encode loop the Render Target is
\* cleared before the Background Template is drawn.
C16_ClearedEachIteration ==
  \A k \in Positions("DrawTemplate") :
     /\ k > 1
     /\ trace[k - 1].op = "Clear"

\* The draw calls made so far with the Render Target as target.
RenderTargetDraws ==
  SelectSeq(Calls({"BeginDraw", "Clear", "DrawBackground", "DrawTemplate",
                   "DrawFrame", "EndDraw"}),
            LAMBDA c : c[2] >= 0 /\ c[1] # "DrawBackground")

RECURSIVE RedrawCalls(_, _)
\* The draw pass of frame k and of the frames after it: no Clear.
RedrawCalls(k, n) ==
  IF k >= n THEN <<>>
  ELSE << <<"BeginDraw", k>>, <<"DrawTemplate", k>>, <<"DrawFrame", k>>,
          <<"EndDraw", k>> >> \o RedrawCalls(k + 1, n)

\* C16: the Render Target is redrawn once per output frame and never
\* cleared. Each turn of the encode loop is one draw pass that draws the
\* Background Template, which is opaque and as large as the target and so
\* replaces every pixel the target held, and then the current frame
\* source-over; Clear is called once in the run, on the template, before the
\* loop.
C16_RedrawnEachIteration ==
  /\ IsPrefix(RenderTargetDraws, RedrawCalls(0, Len(frames)))
  /\ Cardinality(Positions("Clear")) <= 1
  /\ \A k \in Positions("Clear") :
       /\ trace[k].arg = -1
       /\ \A j \in Positions("DrawTemplate") : k < j
  /\ pc = "FrameDrawFrame" =>
       /\ target = "renderTarget"
       /\ renderTargetTexture = backgroundTemplateTexture
  /\ pc = "FrameEndDraw" =>
       /\ target = "renderTarget"
       /\ renderTargetTexture.w = backgroundTemplateTexture.w
       /\ renderTargetTexture.h = backgroundTemplateTexture.h
       /\ \A k \in DOMAIN renderTargetTexture.px :
            renderTargetTexture.px[k] =
              SourceOver(frames[i + 1].px[k], backgroundTemplateTexture.px[k])

\* The second frame is being drawn: the target, which held the first frame's
\* render, holds the template again.
C16_Witness ==
  /\ pc = "FrameDrawFrame" /\ i = 1
  /\ renderTargetTexture = backgroundTemplateTexture
  /\ bytes # CopyBytesFromTexture(backgroundTemplateTexture)
  /\ stagingTexture # backgroundTemplateTexture
  /\ Positions("Clear") # {}

\* Pixel p (1-based) of the pixel data the encoder holds for frame k.
EncodedPixel(k, p) ==
  LET data == PixelsOfFrame(k)[1].bytes
  IN [c \in 1..4 |-> data[4 * (p - 1) + c]]

\* C17: the bytes committed for frame i are frame i drawn source-over on the
\* Background Template and nothing else: the template is opaque in every
\* pixel, every committed pixel is opaque, and where frame i is clear the
\* committed pixel is the template's, whatever the frames before it drew
\* there.
C17_FrameOverTemplateOnly ==
  LET t == backgroundTemplateTexture
  IN /\ TemplateBuilt => \A p \in DOMAIN t.px : t.px[p][4] = 255
     /\ \A k \in 1..Len(frames) :
          PixelsOfFrame(k) # <<>> =>
            /\ Len(PixelsOfFrame(k)[1].bytes) = 4 * Len(t.px)
            /\ \A p \in DOMAIN t.px :
                 /\ EncodedPixel(k, p) = SourceOver(frames[k].px[p], t.px[p])
                 /\ EncodedPixel(k, p)[4] = 255
                 /\ frames[k].px[p] = <<0, 0, 0, 0>> =>
                      EncodedPixel(k, p) = t.px[p]

\* The second frame is clear in a pixel where the first frame was not and
\* where the first frame's render differed from the template.
C17_Witness ==
  /\ Len(encoder.committed) = 2
  /\ \E p \in DOMAIN backgroundTemplateTexture.px :
       /\ frames[2].px[p] = <<0, 0, 0, 0>>
       /\ frames[1].px[p][4] > 0
       /\ EncodedPixel(1, p) # backgroundTemplateTexture.px[p]
       /\ EncodedPixel(2, p) = backgroundTemplateTexture.px[p]

\* The template pass was made once, and before any frame pass.
TemplateComputedOnce ==
  /\ Cardinality({ k \in Positions("BeginDraw") : trace[k].arg = -1 }) <= 1
  /\ Cardinality({ k \in Positions("EndDraw") : trace[k].arg = -1 }) <= 1
  /\ \A k \in Positions("BeginDraw") \cup Positions("DrawTemplate")
              \cup Positions("DrawFrame") :
       trace[k].arg >= 0 =>
         /\ TemplateBuilt
         /\ \A j \in Positions("EndDraw") \cup Positions("DrawBackground") :
              trace[j].arg = -1 \/ trace[j].op = "DrawBackground" => j < k
         /\ \E j \in Positions("SetTarget") :
              /\ j < k
              /\ \E e \in Positions("EndDraw") : trace[e].arg = -1 /\ e < j
  /\ pc \in {"FrameBeginDraw", "FrameDrawTemplate", "FrameDrawFrame",
             "FrameEndDraw"} => target = "renderTarget"

\* No step changes the template once it is built, nor a bitmap once it is
\* loaded.
TemplateLeftAlone ==
  /\ TemplateBuilt => backgroundTemplateTexture' = backgroundTemplateTexture
  /\ pc # "LoadFrames" => frames' = frames
  /\ pc # "LoadBackgrounds" => backgrounds' = backgrounds

\* C18: the Background Template is computed once, before the first frame is
\* rendered: the compositor's pass ends, the target is switched to the
\* Render Target, and from then on no step of the encode loop changes the
\* template, so it is the same for frame 0 and frame N-1; no step changes a
\* loaded frame or background bitmap either.
C18_TemplateComputedOnce ==
  /\ []TemplateComputedOnce
  /\ [][TemplateLeftAlone]_vars

\* The last of two frames is encoded over the template the first was drawn
\* over.
C18_Witness ==
  /\ RunFlushed /\ Len(frames) = 2 /\ Len(backgrounds) >= 1
  /\ backgroundTemplateTexture = WhiteComposite
  /\ renderTargetTexture # backgroundTemplateTexture

\* ---------------------------------------------------------------- termination
\* The three ways a run ends.
EndedEarly ==
  /\ Len(frames) = 0 /\ error = "none" /\ exitCode = "0"
  /\ trace[Len(trace)].op = "NoFrames"
  /\ Positions("Done") = {} /\ Positions("BeginDraw") = {}

EndedAborted ==
  /\ error # "none" /\ exitCode = "fatal"
  /\ Positions("Done") = {} /\ Positions("NoFrames") = {}

EndedDone ==
  /\ error = "none" /\ exitCode = "0" /\ encoder.flushed
  /\ trace[Len(trace)].op = "Done"
  /\ Positions("NoFrames") = {}
  /\ Len(frames) >= 1

\* Where the encode loop stands: the index stays within 0..N-1 inside a
\* turn, the loop is only reached with N >= 1, it is left with i = N, and a
\* run that got to the flush made the turns 0, 1, ..., N-1, each once.
LoopRunsNTimes ==
  LET N == Len(frames)
  IN /\ pc \in {"FrameBeginDraw", "FrameDrawTemplate", "FrameDrawFrame",
                "FrameEndDraw", "CopyResource", "CopyBytes", "SetDelay",
                "SetPixelData", "Advance"} => (i >= 0 /\ i < N)
     /\ pc = "LoopTest" => (N >= 1 /\ i >= 0 /\ i <= N)
     /\ pc \in {"Flush", "PrintDone"} => (N >= 1 /\ i = N)
     /\ Positions("FlushAsync") # {} =>
          /\ Calls({"DrawFrame"}) = [k \in 1..N |-> <<"DrawFrame", k - 1>>]
          /\ Calls({"SetPixelData"}) =
               [k \in 1..N |-> <<"SetPixelData", k - 1>>]
          /\ Calls({"GoToNextFrameAsync"}) =
               [k \in 1..(N - 1) |-> <<"GoToNextFrameAsync", k - 1>>]

\* A run that ended did so in exactly one of the three ways.
EndsOneWay ==
  pc = "Exited" =>
    /\ EndedEarly \/ EndedAborted \/ EndedDone
    /\ ~(EndedEarly /\ EndedAborted)
    /\ ~(EndedEarly /\ EndedDone)
    /\ ~(EndedAborted /\ EndedDone)

\* C19: every run terminates when every awaited operation completes or
\* fails, in exactly one of three ways: early exit on zero frames, abort on
\* the first error, or Done; a run without failure takes the encode loop
\* exactly N times, with i = 0..N-1, and then flushes; the comparisons of
\* the int index with frames.size() and frames.size() - 1 skip no turn, add
\* none and end the loop, for every N >= 1.
C19_Terminates ==
  /\ <>(pc = "Exited")
  /\ []EndsOneWay
  /\ []LoopRunsNTimes

\* A run of two frames that ended with Done.
C19_Witness ==
  /\ pc = "Exited" /\ EndedDone
  /\ Len(frames) = 2 /\ i = 2
  /\ Cardinality(Positions("GoToNextFrameAsync")) = 1

====
